---- MODULE Spec2Model ----
(***************************************************************************)
(* A model of the Quadtree of cpp_learning_1db0cc.cpp: Rect, GameObject,   *)
(* Quadtree::subdivide, Quadtree::insert, Quadtree::query and the driver   *)
(* main.                                                                   *)
(*                                                                         *)
(* Numbers.  The source computes in float.  A number of the model is a     *)
(* record [m, e] that stands for m / 2^e in lowest terms (e = 0 or m odd), *)
(* so F(5) is 5 and [m |-> 75, e |-> 1] is 37.5.  A float sum is the exact *)
(* sum rounded to the 24 significant bits of float, ties to even (fadd):   *)
(* the identity on small values and a real rounding above 2^24.  Float     *)
(* halving is exact down to the least float 2^-149 (Half).  Magnitudes     *)
(* stay below 2^31, far from the overflow of float.                        *)
(*                                                                         *)
(* Tree.  A node is named by its path from the root: <<>> is the root and  *)
(* Append(p, i) is children[i] of the node p.  nodes maps the paths of the *)
(* allocated nodes to their fields; an unallocated child is a null         *)
(* unique_ptr.                                                             *)
(***************************************************************************)
EXTENDS Integers, Sequences, FiniteSets, TLC

VARIABLES
    nodes,   \* path -> [boundary, capacity, objects, divided]: the tree
    objs,    \* the GameObjects the caller has passed to insert, in order
    rets,    \* rets[i]: what insert on the root returned for objs[i]
    calls,   \* the insert invocations of the last root insert, in call order
    found,   \* the caller's result vector after the last query
    base,    \* how long that vector was when the last query was called
    range,   \* the range of the last query
    last,    \* the caller's last operation: "none", "insert", "query", "subdivide"
    direct   \* how many times the caller has called subdivide() itself

vars == <<nodes, objs, rets, calls, found, base, range, last, direct>>

\* ---------------------------------------------------------------- bounds
\* The caller makes at most MaxCalls calls that change the tree (inserts and
\* subdivides); the capacity of the tree is at most MaxCapacity.
MaxCalls == 3
MaxCapacity == 2

\* ----------------------------------------------------------------- float
\* 2^24: float has 24 significant bits, so every integer up to here is a
\* float and the spacing of the floats doubles with every doubling beyond.
FloatExact == 16777216

\* The least positive float is 2^-149.
FloatMinExp == 149

Abs(v) == IF v < 0 THEN 0 - v ELSE v

Max(i, j) == IF i < j THEN j ELSE i

\* The spacing of the floats around a value of magnitude a.
RECURSIVE Ulp(_)
Ulp(a) == IF a < FloatExact THEN 1 ELSE 2 * Ulp(a \div 2)

\* The multiple of u nearest to the integer v, ties to the even multiple.
RoundTo(v, u) ==
    LET a == Abs(v)
        q == a \div u
        r == a % u
        m == IF 2 * r < u THEN q
             ELSE IF 2 * r > u THEN q + 1
             ELSE IF q % 2 = 0 THEN q ELSE q + 1
    IN  IF v < 0 THEN 0 - m * u ELSE m * u

\* The float nearest to the integer v, ties to the even significand; an
\* integer of at most 24 bits is a float.
fl(v) ==
    IF v < FloatExact /\ 0 - v < FloatExact
    THEN v
    ELSE RoundTo(v, Ulp(Abs(v)))

\* The number m / 2^e, in lowest terms.
RECURSIVE Num(_, _)
Num(m, e) ==
    IF e > 0 /\ m % 2 = 0 THEN Num(m \div 2, e - 1) ELSE [m |-> m, e |-> e]

\* The whole number n, as the source writes it in a literal.
F(n) == [m |-> n, e |-> 0]

\* The numerator of a over the denominator 2^e, for e >= a.e.
Scaled(a, e) == a.m * 2^(e - a.e)

\* a + b, exactly.
Sum(a, b) ==
    IF a.e = 0 /\ b.e = 0
    THEN F(a.m + b.m)
    ELSE LET e == Max(a.e, b.e) IN Num(Scaled(a, e) + Scaled(b, e), e)

\* a * b, exactly.
Prod(a, b) == Num(a.m * b.m, a.e + b.e)

\* a < b and a <= b: the comparisons of float are exact.
Less(a, b) ==
    IF a.e = b.e
    THEN a.m < b.m
    ELSE LET e == Max(a.e, b.e) IN Scaled(a, e) < Scaled(b, e)

LessEq(a, b) == ~Less(b, a)

\* The float nearest to the number v, ties to the even significand: at most
\* 24 significant bits, and no bit below 2^-149.
round(v) ==
    IF v.e = 0
    THEN F(fl(v.m))
    ELSE LET u1 == Ulp(Abs(v.m))
             u2 == IF v.e > FloatMinExp THEN 2^(v.e - FloatMinExp) ELSE 1
         IN  Num(RoundTo(v.m, Max(u1, u2)), v.e)

\* a + b in float.
fadd(a, b) == round(Sum(a, b))

\* ------------------------------------------------------------------ Rect
Rect(x, y, width, height) ==
    [x |-> x, y |-> y, width |-> width, height |-> height]

\* The rectangle of the whole numbers x, y, width, height.
R(x, y, width, height) == Rect(F(x), F(y), F(width), F(height))

contains(r, px, py) ==
    /\ LessEq(r.x, px) /\ LessEq(px, fadd(r.x, r.width))
    /\ LessEq(r.y, py) /\ LessEq(py, fadd(r.y, r.height))

\* A slip of intersects: strict separation replaced by non-strict, so that
\* rectangles that only touch count as apart.
intersects_apart_on_touch(r, other) ==
    ~ \/ LessEq(fadd(r.x, r.width), other.x)
      \/ LessEq(fadd(r.y, r.height), other.y)
      \/ LessEq(fadd(other.x, other.width), r.x)
      \/ LessEq(fadd(other.y, other.height), r.y)

intersects(r, other) ==
    ~ \/ Less(fadd(r.x, r.width), other.x)
      \/ Less(fadd(r.y, r.height), other.y)
      \/ Less(fadd(other.x, other.width), r.x)
      \/ Less(fadd(other.y, other.height), r.y)

\* ------------------------------------------------------------ GameObject
GameObject(id, bounds) == [id |-> id, bounds |-> bounds]

\* -------------------------------------------------------------- Quadtree
Root == <<>>

\* The constructor: an empty undivided node.
Quadtree(boundary, capacity) ==
    [boundary |-> boundary, capacity |-> capacity,
     objects |-> <<>>, divided |-> FALSE]

\* boundary.width / 2 in float: exact, but for the least float, whose half
\* rounds to zero.
Half(v) == round(Num(v.m, v.e + 1))

\* The paths strictly below p.
Below(ns, p) ==
    {q \in DOMAIN ns : Len(q) > Len(p) /\ SubSeq(q, 1, Len(p)) = p}

\* subdivide() on the node p: four fresh children, then divided = true.  The
\* assignment to children[i] destroys the child that was there, and with it
\* the subtree below it.
subdivide(ns, p) ==
    LET subWidth  == Half(ns[p].boundary.width)
        subHeight == Half(ns[p].boundary.height)
        x == ns[p].boundary.x
        y == ns[p].boundary.y
        cap == ns[p].capacity
        kids == (Append(p, 0) :> Quadtree(Rect(fadd(x, subWidth), y, subWidth, subHeight), cap))
             @@ (Append(p, 1) :> Quadtree(Rect(x, y, subWidth, subHeight), cap))
             @@ (Append(p, 2) :> Quadtree(Rect(fadd(x, subWidth), fadd(y, subHeight), subWidth, subHeight), cap))
             @@ (Append(p, 3) :> Quadtree(Rect(x, fadd(y, subHeight), subWidth, subHeight), cap))
        kept == [q \in DOMAIN ns \ Below(ns, p) |-> ns[q]]
    IN  kids @@ [kept EXCEPT ![p].divided = TRUE]

RECURSIVE insert(_, _, _)
RECURSIVE insertChildren(_, _, _, _, _)
RECURSIVE query(_, _, _, _)
RECURSIVE queryChildren(_, _, _, _, _)

\* A slip of insert: the capacity test of step 2 before the boundary test of
\* step 1, so that a leaf with room takes an object that lies outside it.
insert_room_first(ns, p, obj) ==
    IF Len(ns[p].objects) < ns[p].capacity /\ ~ns[p].divided
    THEN [ret |-> TRUE,
          nodes |-> [ns EXCEPT ![p].objects = Append(@, obj)],
          calls |-> <<[node |-> p, ret |-> TRUE, step |-> 2, subdivided |-> FALSE]>>]
    ELSE IF ~intersects(ns[p].boundary, obj.bounds)
    THEN [ret |-> FALSE, nodes |-> ns,
          calls |-> <<[node |-> p, ret |-> FALSE, step |-> 1, subdivided |-> FALSE]>>]
    ELSE LET sub == ~ns[p].divided
             ns1 == IF sub THEN subdivide(ns, p) ELSE ns
             r   == insertChildren(ns1, p, obj, 0, <<>>)
         IN  IF r.ret
             THEN [ret |-> TRUE, nodes |-> r.nodes,
                   calls |-> <<[node |-> p, ret |-> TRUE, step |-> 4, subdivided |-> sub]>> \o r.calls]
             ELSE [ret |-> TRUE,
                   nodes |-> [r.nodes EXCEPT ![p].objects = Append(@, obj)],
                   calls |-> <<[node |-> p, ret |-> TRUE, step |-> 5, subdivided |-> sub]>> \o r.calls]

\* A slip of insert's step 3: subdivide whenever the node is full, divided
\* already or not.
insert_resubdivide(ns, p, obj) ==
    IF ~intersects(ns[p].boundary, obj.bounds)
    THEN [ret |-> FALSE, nodes |-> ns,
          calls |-> <<[node |-> p, ret |-> FALSE, step |-> 1, subdivided |-> FALSE]>>]
    ELSE IF Len(ns[p].objects) < ns[p].capacity /\ ~ns[p].divided
    THEN [ret |-> TRUE,
          nodes |-> [ns EXCEPT ![p].objects = Append(@, obj)],
          calls |-> <<[node |-> p, ret |-> TRUE, step |-> 2, subdivided |-> FALSE]>>]
    ELSE LET sub == Len(ns[p].objects) >= ns[p].capacity
             ns1 == IF sub THEN subdivide(ns, p) ELSE ns
             r   == insertChildren(ns1, p, obj, 0, <<>>)
         IN  IF r.ret
             THEN [ret |-> TRUE, nodes |-> r.nodes,
                   calls |-> <<[node |-> p, ret |-> TRUE, step |-> 4, subdivided |-> sub]>> \o r.calls]
             ELSE [ret |-> TRUE,
                   nodes |-> [r.nodes EXCEPT ![p].objects = Append(@, obj)],
                   calls |-> <<[node |-> p, ret |-> TRUE, step |-> 5, subdivided |-> sub]>> \o r.calls]

\* A slip of insert's step 3: subdivide splits the new children[0] as well.
insert_split_twice(ns, p, obj) ==
    IF ~intersects(ns[p].boundary, obj.bounds)
    THEN [ret |-> FALSE, nodes |-> ns,
          calls |-> <<[node |-> p, ret |-> FALSE, step |-> 1, subdivided |-> FALSE]>>]
    ELSE IF Len(ns[p].objects) < ns[p].capacity /\ ~ns[p].divided
    THEN [ret |-> TRUE,
          nodes |-> [ns EXCEPT ![p].objects = Append(@, obj)],
          calls |-> <<[node |-> p, ret |-> TRUE, step |-> 2, subdivided |-> FALSE]>>]
    ELSE LET sub == ~ns[p].divided
             ns1 == IF sub THEN subdivide(subdivide(ns, p), Append(p, 0)) ELSE ns
             r   == insertChildren(ns1, p, obj, 0, <<>>)
         IN  IF r.ret
             THEN [ret |-> TRUE, nodes |-> r.nodes,
                   calls |-> <<[node |-> p, ret |-> TRUE, step |-> 4, subdivided |-> sub]>> \o r.calls]
             ELSE [ret |-> TRUE,
                   nodes |-> [r.nodes EXCEPT ![p].objects = Append(@, obj)],
                   calls |-> <<[node |-> p, ret |-> TRUE, step |-> 5, subdivided |-> sub]>> \o r.calls]

\* One invocation of insert, as recorded in calls: the node it ran on, what
\* it returned, the numbered step of the source it returned from (1 reject,
\* 2 direct push, 4 claimed by a child, 5 fallback push) and whether it
\* called subdivide.
Call(p, ret, step, sub) ==
    [node |-> p, ret |-> ret, step |-> step, subdivided |-> sub]

\* insert(obj) on the node p of the tree ns.  The result carries the return
\* value, the tree afterwards and the invocations made, this one first.
insert(ns, p, obj) ==
    IF ~intersects(ns[p].boundary, obj.bounds)
    THEN [ret |-> FALSE, nodes |-> ns, calls |-> <<Call(p, FALSE, 1, FALSE)>>]
    ELSE IF Len(ns[p].objects) < ns[p].capacity /\ ~ns[p].divided
    THEN [ret |-> TRUE,
          nodes |-> [ns EXCEPT ![p].objects = Append(@, obj)],
          calls |-> <<Call(p, TRUE, 2, FALSE)>>]
    ELSE LET sub == ~ns[p].divided
             ns1 == IF sub THEN subdivide(ns, p) ELSE ns
             r   == insertChildren(ns1, p, obj, 0, <<>>)
         IN  IF r.ret
             THEN [ret |-> TRUE, nodes |-> r.nodes,
                   calls |-> <<Call(p, TRUE, 4, sub)>> \o r.calls]
             ELSE [ret |-> TRUE,
                   nodes |-> [r.nodes EXCEPT ![p].objects = Append(@, obj)],
                   calls |-> <<Call(p, TRUE, 5, sub)>> \o r.calls]

\* A slip of the loop of step 4: no early return, every child is offered the
\* object.
insertChildren_no_return(ns, p, obj, i, cs) ==
    IF i = 4
    THEN [ret |-> FALSE, nodes |-> ns, calls |-> cs]
    ELSE LET r    == insert(ns, Append(p, i), obj)
             rest == insertChildren(r.nodes, p, obj, i + 1, cs \o r.calls)
         IN  [ret |-> r.ret \/ rest.ret, nodes |-> rest.nodes, calls |-> rest.calls]

\* A slip of the loop of step 4: the children are tried from children[3]
\* down to children[0].
insertChildren_reversed(ns, p, obj, i, cs) ==
    IF i = 4
    THEN [ret |-> FALSE, nodes |-> ns, calls |-> cs]
    ELSE LET r == insert(ns, Append(p, 3 - i), obj)
         IN  IF r.ret
             THEN [ret |-> TRUE, nodes |-> r.nodes, calls |-> cs \o r.calls]
             ELSE insertChildren(r.nodes, p, obj, i + 1, cs \o r.calls)

\* The loop of step 4 from child i on: the first child whose insert returns
\* true ends it.
insertChildren(ns, p, obj, i, cs) ==
    IF i = 4
    THEN [ret |-> FALSE, nodes |-> ns, calls |-> cs]
    ELSE LET r == insert(ns, Append(p, i), obj)
         IN  IF r.ret
             THEN [ret |-> TRUE, nodes |-> r.nodes, calls |-> cs \o r.calls]
             ELSE insertChildren(r.nodes, p, obj, i + 1, cs \o r.calls)

\* A slip of query's step 2: every object of a visited node is appended.
matching_untested(objects, rng) == objects

\* The objects of a list that pass query's per-object test, in order.
matching(objects, rng) ==
    SelectSeq(objects, LAMBDA o : intersects(rng, o.bounds))

\* A slip of query: step 1 left out, no subtree is pruned.
query_unpruned(ns, p, rng, fnd) ==
    LET f1 == fnd \o matching(ns[p].objects, rng)
    IN  IF ns[p].divided
        THEN queryChildren(ns, p, rng, f1, 0)
        ELSE f1

\* query(range, found) on the node p: the vector found with the matches of
\* the subtree appended.
query(ns, p, rng, fnd) ==
    IF ~intersects(ns[p].boundary, rng)
    THEN fnd
    ELSE LET f1 == fnd \o matching(ns[p].objects, rng)
         IN  IF ns[p].divided
             THEN queryChildren(ns, p, rng, f1, 0)
             ELSE f1

queryChildren(ns, p, rng, fnd, i) ==
    IF i = 4
    THEN fnd
    ELSE queryChildren(ns, p, rng, query(ns, Append(p, i), rng, fnd), i + 1)

\* ------------------------------------------------------------ the caller
\* No query has been made, or an insert came after it.
NoRange == R(0, 0, 0, 0)

\* The caller constructs a new GameObject and inserts it on the root.
DoInsert(bounds) ==
    LET obj == GameObject(Len(objs) + 1, bounds)
        r   == insert(nodes, Root, obj)
    IN  /\ nodes' = r.nodes
        /\ objs' = Append(objs, obj)
        /\ rets' = Append(rets, r.ret)
        /\ calls' = r.calls
        /\ found' = <<>>
        /\ base' = 0
        /\ range' = NoRange
        /\ last' = "insert"
        /\ UNCHANGED direct

\* A slip of query: the matches of the root are moved out of its list into
\* the result instead of being copied.
DoQuery_moving(rng, fnd) ==
    /\ found' = query(nodes, Root, rng, fnd)
    /\ base' = Len(fnd)
    /\ range' = rng
    /\ last' = "query"
    /\ nodes' = [nodes EXCEPT ![Root].objects =
                     SelectSeq(@, LAMBDA o : ~intersects(rng, o.bounds))]
    /\ UNCHANGED <<objs, rets, calls, direct>>

\* The caller queries the root with the range rng and the result vector fnd.
DoQuery(rng, fnd) ==
    /\ found' = query(nodes, Root, rng, fnd)
    /\ base' = Len(fnd)
    /\ range' = rng
    /\ last' = "query"
    /\ UNCHANGED <<nodes, objs, rets, calls, direct>>

\* The caller calls the public subdivide() on the root itself.
DoSubdivide ==
    /\ nodes' = subdivide(nodes, Root)
    /\ direct' = direct + 1
    /\ calls' = <<>>
    /\ found' = <<>>
    /\ base' = 0
    /\ range' = NoRange
    /\ last' = "subdivide"
    /\ UNCHANGED <<objs, rets>>

\* ------------------------------------------- any caller on a small world
World == R(0, 0, 8, 8)

\* Intervals <<start, length>> of the objects.  Along x: outside the world,
\* touching its edge from outside, across the centre line, and inside the
\* far half up to its quarter line.  Along y: across the centre line, and
\* inside the far half.  Every child is the first one hit for some object,
\* and some objects hit two or all four children.
ObjSpansX == {<<-4, 1>>, <<-2, 2>>, <<3, 2>>, <<5, 1>>}
ObjSpansY == {<<3, 2>>, <<5, 1>>}
ObjRects == {R(sx[1], sy[1], sx[2], sy[2]) : sx \in ObjSpansX, sy \in ObjSpansY}

\* Intervals of the query ranges: outside the world, the near half up to
\* where the centre objects begin, and the far half.
RangeSpansX == {<<-3, 2>>, <<0, 3>>, <<4, 4>>}
RangeSpansY == {<<0, 3>>, <<4, 4>>}
RangeRects == {R(sx[1], sy[1], sx[2], sy[2]) : sx \in RangeSpansX, sy \in RangeSpansY}

Init ==
    /\ \E capacity \in 1..MaxCapacity : nodes = (Root :> Quadtree(World, capacity))
    /\ objs = <<>>
    /\ rets = <<>>
    /\ calls = <<>>
    /\ found = <<>>
    /\ base = 0
    /\ range = NoRange
    /\ last = "none"
    /\ direct = 0

Insert ==
    /\ Len(objs) + direct < MaxCalls
    /\ \E bounds \in ObjRects : DoInsert(bounds)

\* A query into a new, empty vector, as main makes them.
Query ==
    \E rng \in RangeRects : DoQuery(rng, <<>>)

\* The same query once more into the vector that holds its first result.
Requery ==
    /\ last = "query"
    /\ base = 0
    /\ DoQuery(range, found)

\* subdivide() is public: the caller may call it on the root at any time.
Subdivide ==
    /\ Len(objs) + direct < MaxCalls
    /\ DoSubdivide

Next == Insert \/ Query \/ Requery \/ Subdivide

Spec == Init /\ [][Next]_vars

\* ---------------------------------- any caller on a world far from zero
\* A 16 x 16 world whose vertical centre line is x = 2^26.  The floats are
\* 4 apart to the west of that line and 8 apart to the east of it, so the
\* split of the root is exact and the split of an eastern child is not.
FarWorld == R(67108856, 0, 16, 16)

\* Intervals <<start, length>> of the objects.  Along x: the western half
\* up to the centre line, the eastern half, a point on the eastern edge,
\* and outside the world.  Along y: inside the near half, and across the
\* centre line.
FarObjSpansX == {<<67108856, 8>>, <<67108864, 8>>, <<67108872, 0>>, <<67108880, 8>>}
FarObjSpansY == {<<1, 2>>, <<6, 4>>}
FarObjRects ==
    {R(sx[1], sy[1], sx[2], sy[2]) : sx \in FarObjSpansX, sy \in FarObjSpansY}

\* Intervals of the query ranges: the western half short of the centre
\* line, and from the eastern edge outwards; the near half and the far one.
FarRangeSpansX == {<<67108856, 4>>, <<67108872, 8>>}
FarRangeSpansY == {<<0, 8>>, <<8, 8>>}
FarRangeRects ==
    {R(sx[1], sy[1], sx[2], sy[2]) : sx \in FarRangeSpansX, sy \in FarRangeSpansY}

InitFar ==
    /\ \E capacity \in 1..MaxCapacity : nodes = (Root :> Quadtree(FarWorld, capacity))
    /\ objs = <<>>
    /\ rets = <<>>
    /\ calls = <<>>
    /\ found = <<>>
    /\ base = 0
    /\ range = NoRange
    /\ last = "none"
    /\ direct = 0

InsertFar ==
    /\ Len(objs) + direct < MaxCalls
    /\ \E bounds \in FarObjRects : DoInsert(bounds)

QueryFar ==
    \E rng \in FarRangeRects : DoQuery(rng, <<>>)

NextFar == InsertFar \/ QueryFar \/ Requery \/ Subdivide

SpecFar == InitFar /\ [][NextFar]_vars

\* ------------------------------------------------------------------ main
worldBoundary == R(0, 0, 800, 600)
mainCapacity == 4

\* obj1 .. obj8, in the order main inserts them.
mainObjects ==
    << R(10, 10, 20, 20),   R(700, 50, 30, 30),
       R(50, 500, 40, 40),  R(300, 250, 50, 50),
       R(320, 270, 10, 10), R(150, 150, 60, 60),
       R(380, 290, 20, 20), R(750, 550, 10, 10) >>

queryRange == R(280, 200, 100, 100)
playerView == R(0, 0, 100, 100)

\* The ranges queried once main's objects are in: main's two, and the other
\* 100 x 100 windows of the same 40-unit grid over the world.
MainRanges ==
    {queryRange, playerView} \cup
    {R(40 * i, 40 * j, 100, 100) : i \in 0..17, j \in 0..12}

InitMain ==
    /\ nodes = (Root :> Quadtree(worldBoundary, mainCapacity))
    /\ objs = <<>>
    /\ rets = <<>>
    /\ calls = <<>>
    /\ found = <<>>
    /\ base = 0
    /\ range = NoRange
    /\ last = "none"
    /\ direct = 0

InsertMain ==
    /\ Len(objs) < Len(mainObjects)
    /\ DoInsert(mainObjects[Len(objs) + 1])

QueryMain ==
    /\ Len(objs) = Len(mainObjects)
    /\ \E rng \in MainRanges : DoQuery(rng, <<>>)

NextMain == InsertMain \/ QueryMain

SpecMain == InitMain /\ [][NextMain]_vars

\* -------------------------------------------------------- sanity of the model
AllObjects(ns) ==
    UNION {{ns[p].objects[k] : k \in 1..Len(ns[p].objects)} : p \in DOMAIN ns}

\* ------------------------------------------------------------ vocabulary
\* What the last query appended to the caller's vector.
result == SubSeq(found, base + 1, Len(found))

SeqSet(s) == {s[k] : k \in 1..Len(s)}

\* The paths of the subtree of p: p and everything below it.
Subtree(ns, p) ==
    {q \in DOMAIN ns : Len(q) >= Len(p) /\ SubSeq(q, 1, Len(p)) = p}

SubtreeObjects(ns, p) ==
    UNION {SeqSet(ns[q].objects) : q \in Subtree(ns, p)}

\* The places <<node, index>> of the direct lists where the object o stands.
Places(ns, o) ==
    {pk \in UNION {{<<p, k>> : k \in 1..Len(ns[p].objects)} : p \in DOMAIN ns} :
        ns[pk[1]].objects[pk[2]] = o}

Accepted == {objs[i] : i \in {j \in 1..Len(objs) : rets[j]}}
Rejected == {objs[i] : i \in {j \in 1..Len(objs) : ~rets[j]}}

\* The children of p whose boundary the rectangle r intersects.
ChildrenHit(ns, p, r) ==
    {i \in 0..3 : Append(p, i) \in DOMAIN ns /\ intersects(ns[Append(p, i)].boundary, r)}

\* ---------------------------------------------------------------- claims

\* C1 (as claimed; the code violates it).  Completeness of query: after
\* inserts and queries alone, every object whose insert on the root returned
\* true and whose bounds intersect the query range is in the result of the
\* query.
C1_Completeness ==
    (last = "query" /\ direct = 0) =>
        \A o \in Accepted : intersects(o.bounds, range) => o \in SeqSet(result)

\* C2 (as claimed; the code violates it).  After main has inserted obj1 ..
\* obj8 into the 800 x 600 world of capacity 4, the query of queryRange
\* returns exactly the objects 4, 5 and 7.
C2_MainScenario ==
    (last = "query" /\ Len(objs) = 8 /\ range = queryRange) =>
        {o.id : o \in SeqSet(result)} = {4, 5, 7}

\* C3.  No false positives: every object in the result of a query was stored
\* by an earlier insert (it is in the tree and its insert returned true) and
\* its bounds pass range.intersects.
C3_NoFalsePositives ==
    last = "query" =>
        \A k \in 1..Len(result) :
            /\ result[k] \in Accepted
            /\ result[k] \in AllObjects(nodes)
            /\ intersects(range, result[k].bounds)

\* C3 witness: a query on a divided tree returned some stored objects and
\* left others out.
C3_Witness ==
    /\ last = "query"
    /\ nodes[Root].divided
    /\ result # <<>>
    /\ \E o \in AllObjects(nodes) : o \notin SeqSet(result)

\* C4.  Single storage: after inserts and queries alone, an object whose
\* insert returned true stands at exactly one place of exactly one node's
\* direct list; whatever the caller did, it stands at no more than one; an
\* object whose insert returned false stands nowhere, and no query result
\* holds the same object twice.
C4_SingleStorage ==
    /\ direct = 0 => \A o \in Accepted : Cardinality(Places(nodes, o)) = 1
    /\ \A o \in Accepted : Cardinality(Places(nodes, o)) <= 1
    /\ \A o \in Rejected : Places(nodes, o) = {}
    /\ last = "query" =>
           \A j, k \in 1..Len(result) : result[j] = result[k] => j = k

\* C4 witness: an object intersecting at least two children of the divided
\* root was stored, another object was rejected, and a query returned the
\* straddling object together with another one.
C4_Witness ==
    /\ direct = 0
    /\ last = "query"
    /\ nodes[Root].divided
    /\ Rejected # {}
    /\ Len(result) >= 2
    /\ \E o \in SeqSet(result) :
           /\ Cardinality(ChildrenHit(nodes, Root, o.bounds)) >= 2
           /\ o \notin SeqSet(nodes[Root].objects)

\* C5.  Insert result and rejection: every invocation of insert, on the root
\* or below it, returns false exactly when the object's bounds do not
\* intersect the boundary of its node, and returns true with the object
\* stored in that node's subtree otherwise; an insert on the root that
\* returns false leaves the whole tree as it was.
C5_InsertResult ==
    [][last' = "insert" =>
          LET obj == objs'[Len(objs')]
          IN  /\ calls'[1].node = Root
              /\ rets'[Len(rets')] = calls'[1].ret
              /\ \A k \in 1..Len(calls') :
                     /\ calls'[k].ret =
                            intersects(nodes'[calls'[k].node].boundary, obj.bounds)
                     /\ calls'[k].ret <=>
                            obj \in SubtreeObjects(nodes', calls'[k].node)
              /\ ~rets'[Len(rets')] => nodes' = nodes
      ]_vars

\* C5 witness: the root rejected an earlier object, and the last insert was
\* turned down by one child of the divided root and taken by a later one.
C5_Witness ==
    /\ last = "insert"
    /\ Rejected # {}
    /\ rets[Len(rets)]
    /\ \E k \in 2..Len(calls) : ~calls[k].ret
    /\ objs[Len(objs)] \in SubtreeObjects(nodes, calls[Len(calls)].node)
    /\ calls[Len(calls)].node # Root

\* Two rectangles that share exactly an edge or exactly a corner: they have
\* a point in common, and along x or along y one ends where the other
\* begins.
SharePoint(a, b) ==
    \E px \in {a.x, Sum(a.x, a.width), b.x, Sum(b.x, b.width)},
       py \in {a.y, Sum(a.y, a.height), b.y, Sum(b.y, b.height)} :
        contains(a, px, py) /\ contains(b, px, py)

Touching(a, b) ==
    /\ \/ Sum(a.x, a.width) = b.x \/ Sum(b.x, b.width) = a.x
       \/ Sum(a.y, a.height) = b.y \/ Sum(b.y, b.height) = a.y
    /\ SharePoint(a, b)

Boundaries == {nodes[p].boundary : p \in DOMAIN nodes}

\* The nodes whose step 2 the last query ran: no boundary on the way down
\* from the root pruned it.
Visited ==
    {p \in DOMAIN nodes :
        \A n \in 0..Len(p) : intersects(nodes[SubSeq(p, 1, n)].boundary, range)}

\* C6.  Boundary-touch inclusion: rectangles that share exactly an edge or a
\* corner intersect in both argument orders, for every pair the tree
\* compares; an object that only touches the boundary of a node insert ran
\* on passed that node's boundary check; an object of a visited node that
\* only touches the query range is in the result.
C6_BoundaryTouch ==
    /\ intersects(R(0, 0, 10, 10), R(10, 0, 10, 10))
    /\ intersects(R(10, 0, 10, 10), R(0, 0, 10, 10))
    /\ \A a \in Boundaries \cup {range} :
           \A b \in {o.bounds : o \in SeqSet(objs)} \cup {range} :
               Touching(a, b) => intersects(a, b) /\ intersects(b, a)
    /\ last = "insert" =>
           \A k \in 1..Len(calls) :
               Touching(nodes[calls[k].node].boundary, objs[Len(objs)].bounds)
                   => calls[k].ret
    /\ last = "query" =>
           \A p \in Visited : \A o \in SeqSet(nodes[p].objects) :
               Touching(range, o.bounds) => o \in SeqSet(result)

\* C6 witness: an object that only touches the world from outside was
\* accepted, and a query returned an object that only touches its range.
C6_Witness ==
    /\ last = "query"
    /\ \E o \in Accepted : Touching(nodes[Root].boundary, o.bounds)
    /\ \E o \in SeqSet(result) : Touching(range, o.bounds)

\* C7.  Query is read-only and repeatable: a query leaves every node's
\* fields and the set of nodes as they were and keeps what the caller's
\* vector held before the call as a prefix of it; a query that follows
\* another query of the same range returns the same set of objects.
C7_QueryReadOnly ==
    [][last' = "query" =>
          /\ nodes' = nodes
          /\ base' <= Len(found')
          /\ base' > 0 => SubSeq(found', 1, base') = found
          /\ (last = "query" /\ range' = range) =>
                 SeqSet(result') = SeqSet(result)
      ]_vars

\* C7 witness: a second query of the same range has appended its matches,
\* found on two levels of a divided tree, behind those of the first.
C7_Witness ==
    /\ last = "query"
    /\ base > 0
    /\ Len(found) = 2 * base
    /\ nodes[Root].divided
    /\ \E o \in SeqSet(result) : o \notin SeqSet(nodes[Root].objects)
    /\ \E o \in SeqSet(result) : o \in SeqSet(nodes[Root].objects)

\* C8.  Degenerate query: a query whose range does not intersect the root
\* boundary appends nothing.
C8_DegenerateQuery ==
    (last = "query" /\ ~intersects(nodes[Root].boundary, range)) =>
        result = <<>>

\* C8 witness: such a query was made while the tree holds an object that
\* straddles the world's edge and intersects the range.
C8_Witness ==
    /\ last = "query"
    /\ ~intersects(nodes[Root].boundary, range)
    /\ \E o \in AllObjects(nodes) : intersects(range, o.bounds)

\* The allocated children of p.
ChildPaths(ns, p) ==
    {q \in DOMAIN ns : Len(q) = Len(p) + 1 /\ SubSeq(q, 1, Len(p)) = p}

Area(r) == Prod(r.width, r.height)

\* v / 2, exactly.
HalfOf(v) == Num(v.m, v.e + 1)

\* The points a, a + d/4, a + d/2, a + 3d/4 and a + d of an interval.
Quarters(a, d) ==
    {a, Sum(a, HalfOf(HalfOf(d))), Sum(a, HalfOf(d)),
     Sum(a, Sum(HalfOf(d), HalfOf(HalfOf(d)))), Sum(a, d)}

\* Two rectangles with no interior point in common.
InteriorsApart(a, b) ==
    \/ LessEq(Sum(a.x, a.width), b.x) \/ LessEq(Sum(b.x, b.width), a.x)
    \/ LessEq(Sum(a.y, a.height), b.y) \/ LessEq(Sum(b.y, b.height), a.y)

\* The rectangle a does not extend outside the rectangle b.
Within(a, b) ==
    /\ contains(b, a.x, a.y)
    /\ contains(b, Sum(a.x, a.width), Sum(a.y, a.height))

\* C9 (as claimed; the code violates it where the float sums x + w/2 and
\* y + h/2 round).  Subdivision tiling: a divided node with boundary {x,y,w,h} has
\* exactly four children, each with the parent's capacity, with boundaries
\* NE {x+w/2,y,w/2,h/2}, NW {x,y,w/2,h/2}, SE {x+w/2,y+h/2,w/2,h/2} and
\* SW {x,y+h/2,w/2,h/2}; every point of the parent lies in some child, no
\* child extends outside the parent, two distinct children share no
\* interior point, and the children's areas add up to the parent's.
C9_SubdivisionTiling ==
    \A p \in DOMAIN nodes : nodes[p].divided =>
        LET b == nodes[p].boundary
            kid(i) == nodes[Append(p, i)]
        IN  /\ ChildPaths(nodes, p) = {Append(p, i) : i \in 0..3}
            /\ \A i \in 0..3 : kid(i).capacity = nodes[p].capacity
            /\ LET hw == HalfOf(b.width)
                   hh == HalfOf(b.height)
               IN  /\ kid(0).boundary = Rect(Sum(b.x, hw), b.y, hw, hh)
                   /\ kid(1).boundary = Rect(b.x, b.y, hw, hh)
                   /\ kid(2).boundary = Rect(Sum(b.x, hw), Sum(b.y, hh), hw, hh)
                   /\ kid(3).boundary = Rect(b.x, Sum(b.y, hh), hw, hh)
            /\ \A px \in Quarters(b.x, b.width), py \in Quarters(b.y, b.height) :
                   \E i \in 0..3 : contains(kid(i).boundary, px, py)
            /\ \A i \in 0..3 : Within(kid(i).boundary, b)
            /\ \A i, j \in 0..3 :
                   i # j => InteriorsApart(kid(i).boundary, kid(j).boundary)
            /\ Sum(Sum(Area(kid(0).boundary), Area(kid(1).boundary)),
                   Sum(Area(kid(2).boundary), Area(kid(3).boundary))) = Area(b)

\* s is a prefix of t.
IsPrefix(s, t) == Len(s) <= Len(t) /\ SubSeq(t, 1, Len(s)) = s

\* C10.  Subdivision is one-shot and non-redistributing, over every step of
\* a caller that makes inserts and queries alone:
\* no node disappears and a divided node stays divided; subdivide is called
\* only by an insert, on a node that was an undivided leaf holding exactly
\* capacity objects and whose boundary the inserted object intersects, and
\* a node becomes divided only by such a call; the children of a divided
\* node keep their boundary and capacity and lose no object; the objects a
\* node that subdivides held directly before the insert are held directly
\* by it after the insert.
C10_SubdivideOnce ==
    [][direct' = 0 =>
       /\ \A p \in DOMAIN nodes :
              /\ p \in DOMAIN nodes'
              /\ nodes[p].divided => nodes'[p].divided
              /\ nodes'[p].boundary = nodes[p].boundary
              /\ nodes'[p].capacity = nodes[p].capacity
              /\ IsPrefix(nodes[p].objects, nodes'[p].objects)
              /\ (~nodes[p].divided /\ nodes'[p].divided) =>
                     /\ last' = "insert"
                     /\ \E k \in 1..Len(calls') :
                            calls'[k].node = p /\ calls'[k].subdivided
                     /\ SeqSet(nodes[p].objects) \subseteq SeqSet(nodes'[p].objects)
       /\ last' = "insert" =>
              \A k \in 1..Len(calls') : calls'[k].subdivided =>
                  LET p == calls'[k].node
                  IN  /\ p \in DOMAIN nodes
                      /\ ~nodes[p].divided
                      /\ ChildPaths(nodes, p) = {}
                      /\ Len(nodes[p].objects) = nodes[p].capacity
                      /\ intersects(nodes[p].boundary, objs'[Len(objs')].bounds)
                      /\ nodes'[p].divided
      ]_vars

\* C10 witness: the last insert subdivided a child of the divided root, and
\* both still hold the objects they held before.
C10_Witness ==
    /\ direct = 0
    /\ last = "insert"
    /\ \E k \in 1..Len(calls) :
           /\ calls[k].subdivided
           /\ calls[k].node # Root
           /\ Len(nodes[calls[k].node].objects) = nodes[calls[k].node].capacity
    /\ Len(nodes[Root].objects) = nodes[Root].capacity

\* The children of p that the last insert called insert on.
Tried(cs, p) ==
    {i \in 0..3 : \E k \in 1..Len(cs) : cs[k].node = Append(p, i)}

\* The place in the call order of the call on children[i] of p.
CallAt(cs, p, i) == CHOOSE k \in 1..Len(cs) : cs[k].node = Append(p, i)

Least(S) == CHOOSE i \in S : \A j \in S : i <= j

\* The subtree of q is after the step as it was before it; a node that the
\* step created is an empty leaf.
Untouched(q) ==
    \A n \in Subtree(nodes', q) :
        IF n \in DOMAIN nodes
        THEN nodes'[n] = nodes[n]
        ELSE nodes'[n].objects = <<>> /\ ~nodes'[n].divided

\* C11.  First-intersecting-child-wins, for every invocation of insert that
\* reaches the loop of step 4: the children lie NE, NW, SE, SW in the order
\* of their indices; if the object intersects some child, the loop calls
\* insert on children[0] up to the lowest-index intersecting child, in that
\* order and on no other, the object is then in that child's subtree and in
\* no other child's, and every other child's subtree is untouched; the
\* object is stored in the node's own list only if it intersects no child.
C11_FirstChildWins ==
    [][last' = "insert" =>
          LET obj == objs'[Len(objs')]
          IN  \A k \in 1..Len(calls') : calls'[k].step \in {4, 5} =>
                  LET p   == calls'[k].node
                      kid(i) == nodes'[Append(p, i)].boundary
                      hit == ChildrenHit(nodes', p, obj.bounds)
                  IN  /\ kid(0).x = kid(2).x /\ kid(1).x = kid(3).x
                      /\ kid(0).y = kid(1).y /\ kid(2).y = kid(3).y
                      /\ kid(1).x = nodes'[p].boundary.x /\ LessEq(kid(1).x, kid(0).x)
                      /\ kid(1).y = nodes'[p].boundary.y /\ LessEq(kid(1).y, kid(3).y)
                      /\ (calls'[k].step = 5) <=> (hit = {})
                      /\ hit = {} => Tried(calls', p) = 0..3
                      /\ hit # {} =>
                             /\ Tried(calls', p) = 0..Least(hit)
                             /\ \A i, j \in 0..Least(hit) :
                                    i < j => CallAt(calls', p, i) < CallAt(calls', p, j)
                             /\ \A i \in 0..3 :
                                    (obj \in SubtreeObjects(nodes', Append(p, i)))
                                        <=> (i = Least(hit))
                             /\ \A i \in 0..3 :
                                    i # Least(hit) => Untouched(Append(p, i))
      ]_vars

\* C11 witness: the last insert was delegated at the root, the object
\* intersects at least two children, and the one that took it is not
\* children[0].
C11_Witness ==
    /\ last = "insert"
    /\ calls[1].step = 4
    /\ Cardinality(ChildrenHit(nodes, Root, objs[Len(objs)].bounds)) >= 2
    /\ 0 \notin ChildrenHit(nodes, Root, objs[Len(objs)].bounds)
    /\ \E i \in 1..3 : objs[Len(objs)] \in SubtreeObjects(nodes, <<i>>)

\* C12 (as claimed; the code violates it).  Capacity bound and unreachable
\* fallback, after inserts and queries alone: no invocation of insert returns from the fallback of step 5;
\* an object that intersects the boundary of a divided node intersects the
\* boundary of at least one of its children; an undivided node holds at
\* most capacity direct objects and a divided node exactly capacity.
C12_NoFallback ==
    direct = 0 =>
    /\ last = "insert" => \A k \in 1..Len(calls) : calls[k].step # 5
    /\ \A p \in DOMAIN nodes :
           /\ ~nodes[p].divided => Len(nodes[p].objects) <= nodes[p].capacity
           /\ nodes[p].divided =>
                  /\ Len(nodes[p].objects) = nodes[p].capacity
                  /\ \A o \in SeqSet(objs) :
                         intersects(nodes[p].boundary, o.bounds) =>
                             ChildrenHit(nodes, p, o.bounds) # {}

\* The depth of the tree: the length of its longest path.
Depth(ns) == CHOOSE d \in 0..Cardinality(DOMAIN ns) :
                 /\ \E p \in DOMAIN ns : Len(p) = d
                 /\ \A p \in DOMAIN ns : Len(p) <= d

\* q is a child of p.
IsChildOf(q, p) == Len(q) = Len(p) + 1 /\ SubSeq(q, 1, Len(p)) = p

\* The invocations that passed the boundary test of step 1, in call order.
Passed(cs) == SelectSeq(cs, LAMBDA c : c.step # 1)

\* C13.  Termination of insert, for every insert on the root: it returns
\* after at most one invocation on the root and four per level of the tree
\* it found plus four on the children it created, none on the same node
\* twice; the invocations that passed the boundary test form one path down
\* from the root, each but the last claimed by a child and the last one
\* storing the object, and every other invocation is a rejection by a child
\* of a node of that path; at most one invocation calls subdivide, the
\* insert adds no node or the four children of one node, and the depth of
\* the tree grows by at most one.
C13_InsertTerminates ==
    [][last' = "insert" =>
          LET cs  == calls'
              acc == Passed(calls')
          IN  /\ Len(cs) >= 1
              /\ cs[1].node = Root
              /\ Len(cs) <= 1 + 4 * (Depth(nodes) + 1)
              /\ \A j, k \in 1..Len(cs) : cs[j].node = cs[k].node => j = k
              /\ rets'[Len(rets')] => acc # <<>> /\ acc[1].node = Root
              /\ \A j \in 1..Len(acc) :
                     IF j < Len(acc)
                     THEN acc[j].step = 4 /\ IsChildOf(acc[j + 1].node, acc[j].node)
                     ELSE acc[j].step \in {2, 5}
              /\ \A k \in 2..Len(cs) :
                     \E j \in 1..Len(acc) : IsChildOf(cs[k].node, acc[j].node)
              /\ Cardinality({k \in 1..Len(cs) : cs[k].subdivided}) <= 1
              /\ Cardinality(DOMAIN nodes' \ DOMAIN nodes) \in {0, 4}
              /\ \A q \in DOMAIN nodes' \ DOMAIN nodes :
                     \E k \in 1..Len(cs) :
                         cs[k].subdivided /\ IsChildOf(q, cs[k].node)
              /\ Depth(nodes') <= Depth(nodes) + 1
      ]_vars

\* C13 witness: the last insert went down two levels past rejecting
\* children, subdivided a child of the root and made the tree one deeper.
C13_Witness ==
    /\ last = "insert"
    /\ Depth(nodes) = 2
    /\ Len(Passed(calls)) = 3
    /\ \E k \in 1..Len(calls) : calls[k].step = 1
    /\ \E k \in 1..Len(calls) : calls[k].subdivided /\ calls[k].node # Root

====
